---- MODULE Spec2Model ----
(***************************************************************************)
(* cog_predict.py: Predictor.predict, a generator that drives a            *)
(* classifier-free-guidance sampling loop and streams one reference to     *)
(* current.png per sampler iteration.                                      *)
(*                                                                         *)
(* Tensors are sequences of rows (the batch axis).  A row of a latent is   *)
(* one fixed-point number in units of 1 / ScaleDen; a row of a network     *)
(* output is a sequence of LatentChannels integers.  Float inputs in [0,1] *)
(* are dyadic rationals k / FracDen, on which the float product            *)
(* steps * fraction is exact.                                              *)
(***************************************************************************)
EXTENDS Integers, Sequences, FiniteSets, TLC

VARIABLES
    model_config,   \* self.model_config: timestep_respacing, clip_embed_dim
    diffusion,      \* self.diffusion: its number of respaced timesteps, 0 before the first call
    torch_rng,      \* state of torch's global random generator
    pc,             \* where the current predict call stands
    inp,            \* the inputs of the current predict call
    loc,            \* the generator frame's locals
    samples,        \* the sampler generator of the current call
    emitted,        \* the references the current call has yielded so far
    current_png,    \* contents of the file current.png
    x_t,            \* model_fn under test: the noisy latent handed in
    model_out,      \* model_fn under test: the network's output on the combined batch
    fn_out,         \* model_fn under test: the tensor model_fn returned
    ref,            \* an earlier drained call kept for comparison: its inputs and grids
    model           \* self.model: the frozen weights of the denoising network

vars == << model_config, diffusion, torch_rng, pc, inp, loc, samples, emitted,
           current_png, x_t, model_out, fn_out, ref, model >>

----------------------------------------------------------------------------
(* Bounds of the model *)

FracBits == 2
FracDen == 2 ^ FracBits          \* fractions are k / FracDen
SeedMax == 1                     \* explicit seeds are 0..SeedMax
RngMod == 3                      \* states of the abstract random generator
ValMod == 3                      \* latent values are 0..ValMod-1
StepSpan == 1                    \* the multi-call runs use steps MinSteps..MinSteps+StepSpan
WeightMax == 2                   \* network weights tried by the model_fn runs
NetMax == 1                      \* entries of an arbitrary network output are 0..NetMax

(* Program constants *)

MinSteps == 15
MaxSteps == 250
MinRating == 0
MaxRating == 9
DefaultRespacing == 27
ClipEmbedDim == 768
LatentChannels == 4
EpsChannels == 3
Downscale == 8
GridSplit == 6
ScaleNum == 3643                 \* 0.18215 = ScaleNum / ScaleDen
ScaleDen == 20000
RatingChoices == 1..9
BatchChoices == {1, 2, 3, 4, 6, 8}
SizeChoices == {128, 192, 256, 320, 384}
None == "None"

----------------------------------------------------------------------------
(* Conversions *)

Digit(d) == CASE d = 0 -> "0" [] d = 1 -> "1" [] d = 2 -> "2" [] d = 3 -> "3"
              [] d = 4 -> "4" [] d = 5 -> "5" [] d = 6 -> "6" [] d = 7 -> "7"
              [] d = 8 -> "8" [] d = 9 -> "9"

DigitValue(c) == CHOOSE d \in 0..9 : Digit(d) = c

RECURSIVE Str(_)
\* str(n) for n >= 0: the decimal digits, most significant first
Str(n) == IF n < 10 THEN << Digit(n) >> ELSE Append(Str(n \div 10), Digit(n % 10))

RECURSIVE ParseInt(_)
\* int(s) for a string of decimal digits
ParseInt(s) == IF Len(s) = 0 THEN 0
               ELSE 10 * ParseInt(SubSeq(s, 1, Len(s) - 1)) + DigitValue(s[Len(s)])

\* int(x) of the float num / den: truncation toward zero
TruncToInt(num, den) == IF num >= 0 THEN num \div den ELSE -((-num) \div den)

Repeat(x, n) == [k \in 1..n |-> x]

\* an optional tensor: None, or its rows
Absent == [present |-> FALSE, rows |-> << >>]
Tensor(rows) == [present |-> TRUE, rows |-> rows]

----------------------------------------------------------------------------
(* The declared inputs of predict (cog.Input) *)

SeedHalfWord == 2 ^ 16          \* seed <= 2**32 - 1, as seed div 2**16 < 2**16
MinGuidance == -20
MaxGuidance == 100

\* the boundary constraints cog enforces before predict's body runs
ValidInput(i) ==
    /\ i.aesthetic_rating \in MinRating..MaxRating
    /\ i.aesthetic_weight \in 0..FracDen
    /\ i.init_skip_fraction \in 0..FracDen
    /\ i.batch_size \in BatchChoices
    /\ i.width \in SizeChoices
    /\ i.height \in SizeChoices
    /\ i.seed >= -1
    /\ i.seed \div SeedHalfWord < SeedHalfWord
    /\ i.guidance_scale \in MinGuidance..MaxGuidance
    /\ i.steps \in MinSteps..MaxSteps

Input(rating, image, fraction, batch, width, height, seed, scale, steps) ==
    [ prompt |-> "a red apple", aesthetic_rating |-> rating,
      aesthetic_weight |-> FracDen \div 2, negative |-> "",
      init_image |-> image, init_skip_fraction |-> fraction,
      batch_size |-> batch, width |-> width, height |-> height,
      seed |-> seed, guidance_scale |-> scale, steps |-> steps ]

----------------------------------------------------------------------------
(* External collaborators: torch's generator, the encoders, the network,   *)
(* the autoencoder.  Each is a fixed deterministic function.               *)

LatentMod == ValMod * ScaleDen   \* latents are fixed-point, in units of 1 / ScaleDen

ManualSeed(seed) == seed % RngMod
AdvanceRng(rng) == (rng + 1) % RngMod
\* torch.randn(n rows) from generator state rng
Randn(rng, n) == [k \in 1..n |-> ((rng + k) % ValMod) * ScaleDen]

BertEncode(texts) == [k \in 1..Len(texts) |-> [bert |-> texts[k]]]
ClipEncodeText(texts) == [k \in 1..Len(texts) |-> [clip |-> texts[k], aesthetic |-> 0, weight |-> 0]]

TextVal(t) == IF t = "" THEN 0 ELSE 1
ClipVal(clip_embed, k) ==
    IF ~clip_embed.present THEN 0
    ELSE TextVal(clip_embed.rows[k].clip)
            + clip_embed.rows[k].aesthetic * clip_embed.rows[k].weight

\* self.model(combined, ts, **kwargs): one row of NumChannels values per input row
Unet(weights, combined, ts, kwargs) ==
    [k \in 1..Len(combined) |->
        [c \in 1..LatentChannels |->
            (weights * (combined[k] \div ScaleDen) + TextVal(kwargs.context[k].bert)
               + ClipVal(kwargs.clip_embed, k) + c + ts) % ValMod]]

\* self.ldm.encode(image).sample(): the posterior mean plus noise from the generator
LdmEncodeSample(image, width, height, rng) == (1 + rng) % ValMod
\* self.ldm.decode(z), in half units of the pixel range [-1,1]
LdmDecode(z) == ((z \div ScaleDen) % 7) - 3

----------------------------------------------------------------------------
(* Module-level functions *)

\* load_aesthetic_vit_l_14_embed: the assertion on rating
AestheticRatingAccepted(rating) == rating \in RatingChoices

load_aesthetic_vit_l_14_embed(rating) == [file |-> << "rating", rating >>]

\* average_prompt_embed_with_aesthetic_embed, row by row
average_prompt_embed_with_aesthetic_embed(prompt_embed, aesthetic_embed, aesthetic_weight) ==
    [k \in 1..Len(prompt_embed) |->
        [prompt_embed[k] EXCEPT !.aesthetic = aesthetic_embed.file[2],
                                !.weight = aesthetic_weight]]

\* load_finetune: the configuration of a loaded checkpoint
load_finetune(has_clip_proj) ==
    [ timestep_respacing |-> Str(DefaultRespacing),
      clip_embed_dim |-> IF has_clip_proj THEN ClipEmbedDim ELSE 0 ]

----------------------------------------------------------------------------
(* predict: seeding and the step schedule (lines 211-224) *)

\* seed == -1 draws random.randint(0, 2**32 - 1), here `drawn`
ResolveSeed(seed, drawn) == IF seed = -1 THEN drawn ELSE seed

\* a bug: the generator is left as the previous call left it
KeepGenerator(rng, seed) == rng

\* torch.manual_seed(seed) on a generator in state rng
TorchManualSeed(rng, seed) == ManualSeed(seed)

\* self.model_config["timestep_respacing"] = str(steps)
SetRespacing(config, steps) == [config EXCEPT !.timestep_respacing = Str(steps)]

\* create_gaussian_diffusion(..., timestep_respacing = "N"): a schedule of N steps
create_gaussian_diffusion(config) == ParseInt(config.timestep_respacing)

----------------------------------------------------------------------------
(* predict: the conditioning tensors (lines 228-264) *)

\* a bug: the placeholder is built for the undoubled batch
ImageEmbedSingleBatch(batch_size, height, width) ==
    [ shape |-> << batch_size, LatentChannels, height \div Downscale, width \div Downscale >>,
      fill |-> 0 ]

\* torch.zeros(batch_size * 2, 4, height // 8, width // 8)
ImageEmbed(batch_size, height, width) ==
    [ shape |-> << batch_size * 2, LatentChannels, height \div Downscale, width \div Downscale >>,
      fill |-> 0 ]

\* the kwargs dictionary handed to the sampler
PackKwargs(i, config) ==
    LET text_emb == BertEncode(Repeat(i.prompt, i.batch_size))
        text_blank == BertEncode(Repeat(i.negative, i.batch_size))
        text_emb_clip_raw == ClipEncodeText(Repeat(i.prompt, i.batch_size))
        text_emb_clip_blank == ClipEncodeText(Repeat(i.negative, i.batch_size))
        text_emb_clip_aesthetic == load_aesthetic_vit_l_14_embed(i.aesthetic_rating)
        text_emb_clip == average_prompt_embed_with_aesthetic_embed(
                            text_emb_clip_raw, text_emb_clip_aesthetic, i.aesthetic_weight)
    IN  [ context |-> text_emb \o text_blank,
          clip_embed |-> IF config.clip_embed_dim # 0
                         THEN Tensor(text_emb_clip \o text_emb_clip_blank) ELSE Absent,
          image_embed |-> ImageEmbed(i.batch_size, i.height, i.width) ]

----------------------------------------------------------------------------
(* predict: model_fn (lines 267-275) *)

\* half = x_t[: len(x_t) // 2]; combined = torch.cat([half, half])
Combined(xt) ==
    LET half == SubSeq(xt, 1, Len(xt) \div 2) IN half \o half

\* a bug: the difference is added to the conditional estimate
GuideFromCond(cond, uncond, guidance_scale) == cond + guidance_scale * (cond - uncond)

\* uncond_eps + guidance_scale * (cond_eps - uncond_eps), one entry
Guide(cond, uncond, guidance_scale) == uncond + guidance_scale * (cond - uncond)

\* what model_fn makes of the network's output
GuidedOutput(out, guidance_scale) ==
    LET n == Len(out)
        eps == [k \in 1..n |-> SubSeq(out[k], 1, EpsChannels)]
        rest == [k \in 1..n |-> SubSeq(out[k], EpsChannels + 1, Len(out[k]))]
        cond_eps == SubSeq(eps, 1, n \div 2)
        uncond_eps == SubSeq(eps, n \div 2 + 1, 2 * (n \div 2))
        half_eps == [k \in 1..(n \div 2) |->
                        [c \in 1..EpsChannels |->
                            Guide(cond_eps[k][c], uncond_eps[k][c], guidance_scale)]]
        eps2 == half_eps \o half_eps
    IN  [k \in 1..n |-> eps2[k] \o rest[k]]

model_fn(weights, xt, ts, kwargs, guidance_scale) ==
    GuidedOutput(Unet(weights, Combined(xt), ts, kwargs), guidance_scale)

----------------------------------------------------------------------------
(* predict: the grid (lines 277-289, 332) *)

\* a bug: the row is never halved
ImagesPerRowUnsplit(batch_size) == batch_size

\* images_per_row
ImagesPerRow(batch_size) ==
    IF batch_size >= GridSplit THEN batch_size \div 2 ELSE batch_size

Min(a, b) == IF a <= b THEN a ELSE b
Clamp(v, lo, hi) == IF v < lo THEN lo ELSE IF v > hi THEN hi ELSE v

\* image /= 0.18215 on a fixed-point latent
Unscale(v) == (v * ScaleDen) \div ScaleNum

\* out.add(1).div(2).clamp(0, 1), from half units to quarter units of [0,1]
Displayable(out) == Clamp(out + 2, 0, 4)

\* torchvision's make_grid(tensors, nrow): xmaps images per row, ymaps rows
make_grid(tensors, nrow) ==
    LET nmaps == Len(tensors)
        xmaps == Min(nrow, nmaps)
    IN  [ xmaps |-> xmaps,
          ymaps |-> IF xmaps = 0 THEN 0 ELSE (nmaps + xmaps - 1) \div xmaps,
          cells |-> tensors ]

\* save_sample(sample): cell k is decoded from row k of pred_xstart.  The division
\* is done in place on the yielded rows; the sampler as modelled does not read
\* pred_xstart again.
save_sample(sample, batch_size, images_per_row) ==
    make_grid([k \in 1..Min(batch_size, Len(sample.pred_xstart)) |->
                  [ src |-> k,
                    px |-> Displayable(LdmDecode(Unscale(sample.pred_xstart[k]))) ]],
              images_per_row)

\* TF.to_pil_image(grid): quarter units to bytes
to_pil_image(grid) ==
    [grid EXCEPT !.cells = [k \in 1..Len(grid.cells) |->
                               [grid.cells[k] EXCEPT !.px = (@ * 255) \div 4]]]

----------------------------------------------------------------------------
(* predict: the initialization path (lines 291-313) *)

\* a bug: the branch is taken whether or not an image was given
AlwaysInitImage(image) == TRUE

\* if init_image:
HasInitImage(image) == image # None

\* a bug: a zero fraction is used as given
KeepSkipFraction(fraction) == fraction

\* if init_skip_fraction == 0.0: init_skip_fraction = 0.5
EffectiveSkipFraction(fraction) == IF fraction = 0 THEN FracDen \div 2 ELSE fraction

\* a bug: the product is rounded up
SkipTimestepsCeil(respacing, fraction) ==
    (ParseInt(respacing) * fraction + FracDen - 1) \div FracDen

\* int(int(self.model_config["timestep_respacing"]) * init_skip_fraction)
SkipTimesteps(respacing, fraction) ==
    TruncToInt(ParseInt(respacing) * fraction, FracDen)

\* the locals init, init_skip_fraction, init_skip_timesteps, and the generator afterwards
InitPath(i, config, rng) ==
    IF HasInitImage(i.init_image)
    THEN LET fraction == EffectiveSkipFraction(i.init_skip_fraction)
             h == LdmEncodeSample(i.init_image, i.width, i.height, rng) * ScaleNum
         IN  [ init |-> Tensor(Repeat(h, i.batch_size * 2)),
               init_skip_fraction |-> fraction,
               init_skip_timesteps |-> SkipTimesteps(config.timestep_respacing, fraction),
               rng |-> AdvanceRng(rng) ]
    ELSE [ init |-> Absent, init_skip_fraction |-> 0, init_skip_timesteps |-> 0,
           rng |-> rng ]

\* the shape handed to the sampler: (batch_size * 2, 4, int(height / 8), int(width / 8))
SampleShape(i) ==
    << i.batch_size * 2, LatentChannels,
       TruncToInt(i.height, Downscale), TruncToInt(i.width, Downscale) >>

----------------------------------------------------------------------------
(* self.diffusion.plms_sample_loop_progressive: a generator that yields one *)
(* sample state per remaining step                                          *)

NoSampler ==
    [ live |-> FALSE, num_timesteps |-> 0, shape |-> << >>, init |-> Absent,
      skip |-> 0, started |-> FALSE, img |-> << >>, t |-> 0, yielded |-> 0,
      exhausted |-> FALSE ]

\* the call sample_fn(model_fn, shape, ..., init_image, skip_timesteps)
SamplerCreate(num_timesteps, shape, init, skip) ==
    [ live |-> TRUE, num_timesteps |-> num_timesteps, shape |-> shape, init |-> init,
      skip |-> skip, started |-> FALSE, img |-> << >>, t |-> 0, yielded |-> 0,
      exhausted |-> FALSE ]

\* q_sample(init, t, noise): the seed latent noised to step t
QSample(init, t, noise) ==
    [k \in 1..Len(noise) |-> (init[k] + noise[k] + t * ScaleDen) % LatentMod]

\* one resumption of the sampler: it yields the next sample state, or is exhausted
SamplerResume(s, rng, weights, kwargs, guidance_scale) ==
    LET noise == Randn(rng, s.shape[1])
        t0 == s.num_timesteps - s.skip - 1
        t == IF s.started THEN s.t ELSE t0
        img == IF s.started THEN s.img
               ELSE IF s.init.present /\ t0 >= 0 THEN QSample(s.init.rows, t0, noise)
               ELSE noise
        rng1 == IF s.started THEN rng ELSE AdvanceRng(rng)
    IN  IF t < 0
        THEN [ exhausted |-> TRUE, rng |-> rng1, out |-> [sample |-> << >>, pred_xstart |-> << >>, t |-> t],
               s |-> [s EXCEPT !.started = TRUE, !.img = img, !.t = t,
                               !.exhausted = TRUE] ]
        ELSE LET eps == model_fn(weights, img, t, kwargs, guidance_scale)
                 out == [ sample |-> [k \in 1..Len(img) |->
                                         (img[k] + eps[k][1] * ScaleDen) % LatentMod],
                          pred_xstart |-> [k \in 1..Len(img) |->
                                         (img[k] + (eps[k][1] + 2 * eps[k][LatentChannels])
                                                      * ScaleDen) % LatentMod],
                          t |-> t ]
             IN  [ exhausted |-> FALSE, rng |-> rng1, out |-> out,
                   s |-> [s EXCEPT !.started = TRUE, !.img = out.sample, !.t = t - 1,
                                   !.yielded = @ + 1] ]

----------------------------------------------------------------------------
(* predict: the sampling loop (lines 315-335) *)

YieldedPath == "current.png"

\* a bug: only every other sample is saved and yielded
EmitsEveryOther(j) == j % 2 = 0

\* if j % 1 == 0:
Emits(j) == j % 1 = 0

\* a bug: the image is saved elsewhere and current.png keeps its contents
StaleArtifact(old, grid) == old

\* TF.to_pil_image(current_output).save("current.png")
SavedArtifact(old, grid) == [present |-> TRUE, image |-> to_pil_image(grid)]

RECURSIVE RunToYield(_, _, _, _, _, _)
\* the loop from sample j on, up to its next yield or to the sampler's exhaustion
RunToYield(s, rng, j, kwargs, i, weights) ==
    LET r == SamplerResume(s, rng, weights, kwargs, i.guidance_scale)
    IN  IF r.exhausted THEN [ finished |-> TRUE, s |-> r.s, rng |-> r.rng, j |-> j,
                              grid |-> make_grid(<< >>, 0), t |-> r.out.t ]
        ELSE IF Emits(j)
        THEN [ finished |-> FALSE, s |-> r.s, rng |-> r.rng, j |-> j,
               grid |-> save_sample(r.out, i.batch_size, ImagesPerRow(i.batch_size)),
               t |-> r.out.t ]
        ELSE RunToYield(r.s, r.rng, j + 1, kwargs, i, weights)

----------------------------------------------------------------------------
(* State *)

EmptyLoc ==
    [ seed |-> -1, encoded |-> FALSE, error |-> None,
      kwargs |-> [context |-> << >>, clip_embed |-> Absent,
                  image_embed |-> [shape |-> << >>, fill |-> 0]],
      images_per_row |-> 0, init |-> Absent, init_skip_fraction |-> 0,
      init_skip_timesteps |-> 0, j |-> 0 ]

NoFile == [present |-> FALSE, image |-> to_pil_image(make_grid(<< >>, 0))]
NoRef ==
    [ present |-> FALSE, inp |-> Input(9, None, 0, 1, 128, 128, 0, 1, MinSteps),
      out |-> << >>, between |-> FALSE ]

Ended == {"idle", "done", "failed", "rejected", "closed"}

\* the state after setup(); has_clip_proj: whether the checkpoint holds clip_proj.weight
Setup(has_clip_proj, rng, weights) ==
    /\ model_config = load_finetune(has_clip_proj)
    /\ diffusion = 0
    /\ torch_rng = rng
    /\ model = weights
    /\ pc = "idle"
    /\ inp = NoRef.inp
    /\ loc = EmptyLoc
    /\ samples = NoSampler
    /\ emitted = << >>
    /\ current_png = NoFile
    /\ x_t = << >>
    /\ model_out = << >>
    /\ fn_out = << >>
    /\ ref = NoRef

fn_vars == << x_t, model_out, fn_out >>

----------------------------------------------------------------------------
(* Operations *)

\* a call of predict(i): cog checks the inputs, then creates the generator.
\* keep: whether the call that just drained is remembered for comparison;
\* ref.between: whether another call has ended since the remembered one.
Predict(i, keep) ==
    /\ pc \in Ended
    /\ ref' = IF keep /\ pc = "done" /\ inp.seed # -1
              THEN [present |-> TRUE, inp |-> inp,
                    out |-> [k \in 1..Len(emitted) |-> emitted[k].grid],
                    between |-> FALSE]
              ELSE [ref EXCEPT !.between = ref.present /\ pc # "idle"]
    /\ pc' = IF ValidInput(i) THEN "created" ELSE "rejected"
    /\ inp' = i
    /\ loc' = EmptyLoc
    /\ samples' = NoSampler
    /\ emitted' = << >>
    /\ UNCHANGED << model_config, diffusion, torch_rng, current_png, model, fn_vars >>

\* how a resumption ends, r being what the loop ran into
Loop(r) ==
    /\ samples' = r.s
    /\ torch_rng' = r.rng
    /\ IF r.finished
       THEN /\ pc' = "done"
            /\ UNCHANGED << emitted, current_png >>
       ELSE /\ pc' = "suspended"
            /\ current_png' = SavedArtifact(current_png, r.grid)
            /\ emitted' = Append(emitted, [path |-> YieldedPath, j |-> r.j,
                                           t |-> r.t, grid |-> r.grid])

\* the consumer's first next(): the body up to the first yield
First(drawn) ==
    /\ pc = "created"
    /\ LET seed == ResolveSeed(inp.seed, drawn)
           rng1 == TorchManualSeed(torch_rng, seed)
           config == SetRespacing(model_config, inp.steps)
           num_timesteps == create_gaussian_diffusion(config)
       IN  /\ model_config' = config
           /\ diffusion' = num_timesteps
           /\ IF ~AestheticRatingAccepted(inp.aesthetic_rating)
              THEN /\ pc' = "failed"
                   /\ torch_rng' = rng1
                   /\ loc' = [EmptyLoc EXCEPT !.seed = seed, !.encoded = TRUE,
                                              !.error = "AssertionError"]
                   /\ UNCHANGED << samples, emitted, current_png >>
              ELSE LET kwargs == PackKwargs(inp, config)
                       ip == InitPath(inp, config, rng1)
                       s == SamplerCreate(num_timesteps, SampleShape(inp), ip.init,
                                          ip.init_skip_timesteps)
                       r == RunToYield(s, ip.rng, 0, kwargs, inp, model)
                   IN  /\ loc' = [ seed |-> seed, encoded |-> TRUE, error |-> None,
                                   kwargs |-> kwargs,
                                   images_per_row |-> ImagesPerRow(inp.batch_size),
                                   init |-> ip.init,
                                   init_skip_fraction |-> ip.init_skip_fraction,
                                   init_skip_timesteps |-> ip.init_skip_timesteps,
                                   j |-> r.j ]
                       /\ Loop(r)
    /\ UNCHANGED << inp, model, ref, fn_vars >>

\* a later next(): from the yield to the next yield, or to the end of the body
Resume ==
    /\ pc = "suspended"
    /\ LET r == RunToYield(samples, torch_rng, loc.j + 1, loc.kwargs, inp, model)
       IN  /\ loc' = [loc EXCEPT !.j = r.j]
           /\ Loop(r)
    /\ UNCHANGED << model_config, diffusion, inp, model, ref, fn_vars >>

\* the consumer stops draining: the suspended generator is closed
Close ==
    /\ pc = "suspended"
    /\ pc' = "closed"
    /\ UNCHANGED << model_config, diffusion, torch_rng, inp, loc, samples, emitted,
                    current_png, model, ref, fn_vars >>

----------------------------------------------------------------------------
(* Specifications *)

SomeImage == "photo.png"
DrawnSeeds == 0..SeedMax

\* repeated calls on one Predictor, drained or abandoned: with and without a seed
\* image, random and fixed seeds, several step counts, rating 0, a step count below
\* the declared minimum
Inputs ==
    { Input(9, image, 0, 1, 128, 128, seed, 1, steps) :
        image \in {None, SomeImage}, seed \in (-1)..SeedMax,
        steps \in MinSteps..(MinSteps + StepSpan) }
    \cup { Input(0, None, 0, 1, 128, 128, 0, 1, MinSteps),
           Input(9, None, 0, 1, 128, 128, 0, 1, MinSteps - 1) }

Init == \E c \in BOOLEAN, r \in 0..(RngMod - 1) : Setup(c, r, 1)

\* only a drained call with a fixed seed can be remembered
KeepChoices == IF pc = "done" /\ inp.seed # -1 THEN BOOLEAN ELSE {FALSE}

Next ==
    \/ \E i \in Inputs, keep \in KeepChoices : Predict(i, keep)
    \/ \E d \in DrawnSeeds : First(d)
    \/ Resume
    \/ Close

Spec == Init /\ [][Next]_vars

\* one call per step count and skip fraction, drained to the end
InputsDrain ==
    { Input(9, None, 0, 1, 128, 128, 0, 1, steps) : steps \in MinSteps..MaxSteps }
    \cup { Input(9, SomeImage, fraction, 1, 128, 128, 0, 1, steps) :
             fraction \in {0, 1, FracDen \div 2, FracDen - 1, FracDen},
             steps \in MinSteps..MaxSteps }

InitDrain == Setup(TRUE, 0, 1)

NextDrain ==
    \/ \E i \in InputsDrain : pc = "idle" /\ Predict(i, FALSE)
    \/ \E d \in {0} : First(d)
    \/ Resume

SpecDrain == InitDrain /\ [][NextDrain]_vars

\* one call per step count, skip fraction and seed image, abandoned after its first yield
InputsInit ==
    { Input(9, image, fraction, 1, 128, 128, 0, 1, steps) :
        image \in {None, SomeImage}, fraction \in 0..FracDen,
        steps \in MinSteps..MaxSteps }

NextInit ==
    \/ \E i \in InputsInit : pc = "idle" /\ Predict(i, FALSE)
    \/ \E d \in {0} : First(d)
    \/ Close

SpecInit == InitDrain /\ [][NextInit]_vars

\* one call per batch size, width and height, with either kind of checkpoint
InputsShapes ==
    { Input(9, image, 0, batch, width, height, 0, 1, MinSteps) :
        image \in {None, SomeImage}, batch \in BatchChoices,
        width \in SizeChoices, height \in SizeChoices }

InitShapes == \E c \in BOOLEAN : Setup(c, 0, 1)

NextShapes ==
    \/ \E i \in InputsShapes : pc = "idle" /\ Predict(i, FALSE)
    \/ \E d \in {0} : First(d)
    \/ Resume

SpecShapes == InitShapes /\ [][NextShapes]_vars

\* model_fn alone: x_t is drawn, then the function is applied to it
GuidanceScales == {-1, 0, 1, 2, 5}
Timesteps == {0, 1}

InitFn ==
    \E c \in BOOLEAN, r \in 0..(RngMod - 1), w \in 0..WeightMax,
       batch \in BatchChoices, g \in GuidanceScales :
        /\ Setup(c, r, w)!1
        /\ diffusion = 0
        /\ torch_rng = r
        /\ model = w
        /\ pc = "fn"
        /\ inp = Input(9, None, 0, batch, 128, 128, 0, g, MinSteps)
        /\ loc = [EmptyLoc EXCEPT !.kwargs = PackKwargs(inp, model_config)]
        /\ samples = NoSampler
        /\ emitted = << >>
        /\ current_png = NoFile
        /\ x_t = Randn(r, 2 * batch)
        /\ model_out = << >>
        /\ fn_out = << >>
        /\ ref = NoRef

\* model_fn(x_t, ts, **kwargs) with the network self.model
CallModelFn(ts) ==
    /\ pc = "fn"
    /\ pc' = "fn_done"
    /\ model_out' = Unet(model, Combined(x_t), ts, loc.kwargs)
    /\ fn_out' = model_fn(model, x_t, ts, loc.kwargs, inp.guidance_scale)
    /\ UNCHANGED << model_config, diffusion, torch_rng, inp, loc, samples, emitted,
                    current_png, x_t, ref, model >>

NetValues == 0..NetMax

\* model_fn on a two-row batch with a network that answers `out`
CallModelFnOn(out) ==
    /\ pc = "fn"
    /\ Len(x_t) = 2
    /\ model = 0
    /\ torch_rng = 0
    /\ model_config.clip_embed_dim # 0
    /\ pc' = "fn_done"
    /\ model_out' = out
    /\ fn_out' = GuidedOutput(out, inp.guidance_scale)
    /\ UNCHANGED << model_config, diffusion, torch_rng, inp, loc, samples, emitted,
                    current_png, x_t, ref, model >>

NextFn ==
    \/ \E ts \in Timesteps : CallModelFn(ts)
    \/ \E out \in [1..2 -> [1..LatentChannels -> NetValues]] : CallModelFnOn(out)

SpecFn == InitFn /\ [][NextFn]_vars

----------------------------------------------------------------------------
(* Properties *)

Started == pc \notin {"idle", "created", "rejected", "fn", "fn_done"}
Sampling == samples.live
Last(seq) == seq[Len(seq)]

\* C1: once the initialization path has run, the call has emitted exactly one
\* reference per state the sampler has yielded, in the sampler's order (reference
\* k is sample k-1, built from step skip_steps + k - 1 of the schedule, whose
\* timestep index counts down from steps - skip_steps - 1); it stands between step
\* skip_steps and step steps; it is finished exactly when the sampler is exhausted,
\* and has then emitted steps - skip_steps references.
C1_LinearDrain ==
    Sampling =>
        LET skip == loc.init_skip_timesteps
            n == Len(emitted)
        IN  /\ pc \in {"suspended", "done"}
            /\ samples.num_timesteps = inp.steps
            /\ samples.skip = skip
            /\ (inp.init_image = None => skip = 0)
            /\ n = samples.yielded
            /\ skip + n <= inp.steps
            /\ n > 0 => /\ Last(emitted).j = n - 1
                        /\ Last(emitted).t = inp.steps - skip - n
                        /\ Last(emitted).path = YieldedPath
            /\ (pc = "done") = samples.exhausted
            /\ pc = "done" => n = inp.steps - skip

C1_Witness ==
    /\ pc = "done"
    /\ inp.steps = MaxSteps
    /\ inp.init_image = SomeImage
    /\ inp.init_skip_fraction = 1
    /\ Len(emitted) = MaxSteps - (MaxSteps \div FracDen)
    /\ Len(emitted) > 0

\* C2: every reference names current.png, and whenever the consumer holds control
\* after k >= 1 yields (the generator suspended, closed or finished) the file
\* holds the image of the grid of the most recently yielded iteration.
C2_ArtifactIsLastYield ==
    (pc \in {"suspended", "closed", "done"} /\ Len(emitted) >= 1) =>
        /\ \A k \in 1..Len(emitted) : emitted[k].path = YieldedPath
        /\ current_png.present
        /\ current_png.image = to_pil_image(Last(emitted).grid)

C2_Witness ==
    /\ pc = "closed"
    /\ Len(emitted) >= 2
    /\ ref.present
    /\ current_png.image = to_pil_image(Last(emitted).grid)
    /\ current_png.image # to_pil_image(emitted[Len(emitted) - 1].grid)
    /\ current_png.image # to_pil_image(Last(ref.out))

\* C3: a call whose inputs satisfy the declared constraints is never aborted after
\* encoding has begun (in particular not for aesthetic_rating = 0).
C3_ValidInputNotAborted ==
    ValidInput(inp) => ~(loc.encoded /\ loc.error # None)

\* C4: model_fn returns a tensor of the batch size of its input; in its first
\* EpsChannels channels both halves hold uncond + guidance_scale * (cond - uncond),
\* cond and uncond being the halves of the network's output on [half, half]; with
\* guidance_scale 1 that is cond, with 0 it is uncond; the remaining channels are
\* the network's, unchanged.
C4_Guidance ==
    pc = "fn_done" =>
        LET n == Len(x_t)
            h == n \div 2
            g == inp.guidance_scale
        IN  /\ Len(model_out) = n
            /\ Len(fn_out) = n
            /\ \A k \in 1..n : Len(fn_out[k]) = Len(model_out[k])
            /\ \A k \in 1..h : \A c \in 1..EpsChannels :
                  /\ fn_out[k][c] = model_out[h + k][c]
                                      + g * (model_out[k][c] - model_out[h + k][c])
                  /\ fn_out[h + k][c] = fn_out[k][c]
                  /\ g = 1 => fn_out[k][c] = model_out[k][c]
                  /\ g = 0 => fn_out[k][c] = model_out[h + k][c]
            /\ \A k \in 1..n : \A c \in (EpsChannels + 1)..Len(model_out[k]) :
                  fn_out[k][c] = model_out[k][c]

C4_Witness ==
    /\ pc = "fn_done"
    /\ Len(x_t) = 16
    /\ inp.guidance_scale = 5
    /\ model_out = Unet(model, Combined(x_t), 1, loc.kwargs)
    /\ fn_out[3][1] # model_out[3][1]
    /\ fn_out[3][1] # model_out[11][1]
    /\ model_out[3][LatentChannels] # model_out[11][LatentChannels]

ContextAssembled ==
    LET b == inp.batch_size
        kw == loc.kwargs
    IN  /\ Len(kw.context) = 2 * b
        /\ \A k \in 1..b : /\ kw.context[k].bert = inp.prompt
                           /\ kw.context[b + k].bert = inp.negative
        /\ kw.image_embed.shape =
              << 2 * b, LatentChannels, inp.height \div Downscale, inp.width \div Downscale >>
        /\ kw.image_embed.fill = 0
        /\ kw.image_embed.shape = samples.shape

ClipAssembled ==
    LET b == inp.batch_size
        kw == loc.kwargs
    IN  /\ kw.clip_embed.present
        /\ Len(kw.clip_embed.rows) = 2 * b
        /\ \A k \in 1..b : /\ kw.clip_embed.rows[k].clip = inp.prompt
                           /\ kw.clip_embed.rows[k].aesthetic = inp.aesthetic_rating
                           /\ kw.clip_embed.rows[b + k].clip = inp.negative
                           /\ kw.clip_embed.rows[b + k].aesthetic = 0

\* C5 as stated: context, clip_embed and image_embed all have 2 * batch_size rows,
\* prompt side first, and image_embed has the shape handed to the sampler.
C5_AllThreeDoubled == Sampling => (ContextAssembled /\ ClipAssembled)

\* C5, amended: context and image_embed always have 2 * batch_size rows, prompt
\* side first, image_embed of the shape handed to the sampler; clip_embed has them
\* when the checkpoint holds a CLIP projection and is None when it does not.
C5_DoubledWhenPresent ==
    Sampling =>
        /\ ContextAssembled
        /\ IF model_config.clip_embed_dim # 0 THEN ClipAssembled
           ELSE ~loc.kwargs.clip_embed.present

C5_Witness ==
    /\ pc = "suspended"
    /\ inp.batch_size = 8
    /\ inp.width = 384
    /\ inp.height = 192
    /\ samples.shape = << 16, 4, 24, 48 >>
    /\ model_config.clip_embed_dim = 0
    /\ ~loc.kwargs.clip_embed.present
    /\ Len(loc.kwargs.context) = 16

\* C6: with a seed image the sampler's skip count is floor(steps * f), f in (0,1]
\* the effective skip fraction and steps this call's respaced step count; so it lies
\* in 0..steps and is steps when f = 1.
C6_SkipIsFloor ==
    (Sampling /\ inp.init_image # None) =>
        LET f == loc.init_skip_fraction
            steps == inp.steps
            skip == samples.skip
        IN  /\ diffusion = steps
            /\ samples.num_timesteps = steps
            /\ f \in 1..FracDen
            /\ skip * FracDen <= steps * f
            /\ steps * f < (skip + 1) * FracDen
            /\ skip \in 0..steps
            /\ f = FracDen => skip = steps

C6_Witness ==
    /\ pc = "suspended"
    /\ inp.init_image = SomeImage
    /\ inp.steps = 150
    /\ inp.init_skip_fraction = FracDen - 1
    /\ samples.skip = 150 - 1 - (150 \div FracDen)
    /\ samples.skip * FracDen < 150 * (FracDen - 1)

\* C7: a call with a seed image and skip fraction 0 does not fail; it runs with the
\* fraction 0.5, skip count floor(steps * 0.5), and an initial latent of
\* 2 * batch_size identical rows.
C7_ZeroFractionOverridden ==
    (Started /\ inp.init_image # None /\ inp.init_skip_fraction = 0) =>
        /\ pc \in {"suspended", "closed", "done"}
        /\ loc.error = None
        /\ Sampling
        /\ 2 * loc.init_skip_fraction = FracDen
        /\ samples.skip = inp.steps \div 2
        /\ samples.init.present
        /\ Len(samples.init.rows) = 2 * inp.batch_size
        /\ \A k \in 1..Len(samples.init.rows) : samples.init.rows[k] = samples.init.rows[1]

C7_Witness ==
    /\ pc = "suspended"
    /\ inp.init_image = SomeImage
    /\ inp.init_skip_fraction = 0
    /\ inp.steps = DefaultRespacing
    /\ samples.skip = 13
    /\ Len(samples.init.rows) = 2

\* C8: a call without a seed image hands the sampler no initial latent and skip
\* count 0, whatever the skip fraction asked for.
C8_NoImageNoSkip ==
    (Started /\ inp.init_image = None) =>
        /\ Sampling
        /\ ~samples.init.present
        /\ samples.skip = 0
        /\ loc.init_skip_timesteps = 0
        /\ Len(emitted) >= 1 => emitted[1].t = inp.steps - 1

C8_Witness ==
    /\ pc = "suspended"
    /\ inp.init_image = None
    /\ inp.init_skip_fraction = FracDen
    /\ inp.steps = MaxSteps
    /\ samples.skip = 0
    /\ emitted[1].t = MaxSteps - 1

\* C9: every grid of a call is built from the first batch_size rows of pred_xstart,
\* in order, with row length batch_size below 6 and batch_size div 2 from 6 on.
C9_GridRows ==
    \A k \in 1..Len(emitted) :
        LET grid == emitted[k].grid
            b == inp.batch_size
        IN  /\ Len(grid.cells) = b
            /\ \A m \in 1..b : grid.cells[m].src = m
            /\ grid.xmaps = (IF b < 6 THEN b ELSE b \div 2)
            /\ grid.xmaps = loc.images_per_row
            /\ b = 8 => grid.xmaps = 4
            /\ b = 6 => grid.xmaps = 3
            /\ b = 4 => grid.xmaps = 4

C9_Witness ==
    /\ pc = "done"
    /\ inp.batch_size = 8
    /\ Len(emitted) = MinSteps
    /\ Last(emitted).grid.xmaps = 4
    /\ Last(emitted).grid.ymaps = 2
    /\ Len(Last(emitted).grid.cells) = 8

\* C10: a call with the inputs (seed other than -1) of an earlier drained call,
\* whatever calls came between, emits the same grids in the same order: what it has
\* emitted so far is a prefix of the earlier call's output, and when it finishes
\* the two sequences are equal.
C10_SameSeedSameOutput ==
    (ref.present /\ ref.inp = inp /\ Started) =>
        /\ pc # "failed"
        /\ Len(emitted) <= Len(ref.out)
        /\ \A k \in 1..Len(emitted) : emitted[k].grid = ref.out[k]
        /\ pc = "done" => Len(emitted) = Len(ref.out)

C10_Witness ==
    /\ ref.present
    /\ ref.between
    /\ ref.inp = inp
    /\ inp.init_image = SomeImage
    /\ pc = "done"
    /\ Len(emitted) = Len(ref.out)
    /\ Len(emitted) >= 2
    /\ emitted[1].grid # emitted[2].grid

====
